---------------------------- MODULE Spec2Model ----------------------------
(***************************************************************************)
(* A model of the EM Report Compiler (burnett013/em_reports):               *)
(*   functions/functions.py  extract_dates_from_filename, robust_read_csv,  *)
(*                           export_xlsx_bytes                              *)
(*   app.py                  _norm_key / SCO_MAP, the detail and summary    *)
(*                           batch loops                                    *)
(* Strings are sequences of one-character strings, so that the regular      *)
(* expressions, strip/upper/replace and int() are computed character by     *)
(* character.                                                               *)
(***************************************************************************)
EXTENDS Integers, Sequences, FiniteSets, TLC

VARIABLES
    pc,          \* position of the running function or loop
    filename,    \* extract_dates_from_filename: the argument
    gen,         \* how the file name was put together (history only)
    dates,       \* extract_dates_from_filename: what the call produced
    raw,         \* SCO mapping: a cell of the SCO column
    sgen,        \* how the cell was put together (history only)
    cleaned,     \* SCO mapping: the cell of cleaned_sco
    sco2,        \* SCO mapping: the cell of the SCO2 column
    text,        \* robust_read_csv: the lines of the decoded text
    cgen,        \* how the text was put together (history only)
    sep,         \* robust_read_csv: the sniffed delimiter
    header,      \* robust_read_csv: header
    total_cols,  \* robust_read_csv: total_cols
    keep_cols,   \* robust_read_csv: keep_cols
    skipped,     \* robust_read_csv: skipped
    result,      \* robust_read_csv: what the call produced
    files,            \* app.py: the uploaded detail files
    summary_files,    \* app.py: the uploaded summary files
    fallback,         \* app.py: (fallback_from, fallback_to)
    s_fallback,       \* app.py: (s_fallback_from, s_fallback_to)
    cursor,           \* the 1-based index of the file the running loop is at
    frames,           \* app.py: frames
    total_skipped,    \* app.py: total_skipped
    per_file_stats,   \* app.py: per_file_stats
    unified_detail,   \* app.py: unified_detail, <<>> while not assigned
    sum_frames,       \* app.py: sum_frames
    sum_skipped,      \* app.py: sum_skipped
    sum_stats,        \* app.py: sum_stats
    unified_summary,  \* app.py: unified_summary, <<>> while not assigned
    error,            \* the exception that left the button handler, "" if none
    xdf,              \* export_xlsx_bytes: df
    base_dir,         \* export_xlsx_bytes: base_dir
    fs,               \* export_xlsx_bytes: the file system at base_dir
    output,           \* export_xlsx_bytes: output, <<>> while not written
    blob              \* export_xlsx_bytes: what the call produced

dateVars == <<filename, gen, dates>>
scoVars == <<raw, sgen, cleaned, sco2>>
csvVars == <<text, cgen, sep, header, total_cols, keep_cols, skipped, result>>
batchVars ==
    <<files, summary_files, fallback, s_fallback, cursor, frames, total_skipped,
      per_file_stats, unified_detail, sum_frames, sum_skipped, sum_stats,
      unified_summary, error>>
exportVars == <<xdf, base_dir, fs, output, blob>>
vars == <<pc, dateVars, scoVars, csvVars, batchVars, exportVars>>

---------------------------------------------------------------------------
(* Characters and small helpers                                             *)

Digits == {"0", "1", "2", "3", "4", "5", "6", "7", "8", "9"}

DigitVal ==
    [c \in Digits |->
        CASE c = "0" -> 0 [] c = "1" -> 1 [] c = "2" -> 2 [] c = "3" -> 3
          [] c = "4" -> 4 [] c = "5" -> 5 [] c = "6" -> 6 [] c = "7" -> 7
          [] c = "8" -> 8 [] c = "9" -> 9]

IsDigit(c) == c \in Digits

\* the character class [.\-] of both patterns
IsSep(c) == c \in {".", "-"}

\* str.lower() on the characters file names are built from here
Lower(c) ==
    CASE c = "C" -> "c" [] c = "S" -> "s" [] c = "V" -> "v"
      [] c = "E" -> "e" [] c = "M" -> "m" [] OTHER -> c

\* int(s) for a string of decimal digits
RECURSIVE int(_)
int(s) ==
    IF Len(s) = 0 THEN 0
    ELSE 10 * int(SubSeq(s, 1, Len(s) - 1)) + DigitVal[s[Len(s)]]

---------------------------------------------------------------------------
(* functions.py: the filename date range parser                             *)

None == [kind |-> "None", y |-> 0, m |-> 0, d |-> 0]
ValueError == [kind |-> "ValueError", y |-> 0, m |-> 0, d |-> 0]
Date(yy, mm, dd) == [kind |-> "date", y |-> yy, m |-> mm, d |-> dd]

IsLeap(yy) == (yy % 4 = 0 /\ yy % 100 # 0) \/ yy % 400 = 0

DaysInMonth(yy, mm) ==
    CASE mm \in {1, 3, 5, 7, 8, 10, 12} -> 31
      [] mm \in {4, 6, 9, 11} -> 30
      [] OTHER -> IF IsLeap(yy) THEN 29 ELSE 28

\* datetime.date(yy, mm, dd): the date, or ValueError when out of range
date(yy, mm, dd) ==
    IF /\ 1 <= yy /\ yy <= 9999
       /\ 1 <= mm /\ mm <= 12
       /\ 1 <= dd /\ dd <= DaysInMonth(yy, mm)
    THEN Date(yy, mm, dd)
    ELSE ValueError

\* a year window of 1900 instead of 2000
_norm_year_1900(y) == IF Len(y) = 4 THEN int(y) ELSE 1900 + int(y)

_norm_year(y) == IF Len(y) = 4 THEN int(y) ELSE 2000 + int(y)

\* the try block of _build_date without its except clause
_build_date_try(m, d, y, dayfirst) ==
    LET dd == IF dayfirst THEN int(m) ELSE int(d)
        mm == IF dayfirst THEN int(d) ELSE int(m)
        yy == _norm_year(y)
    IN  date(yy, mm, dd)

\* _build_date with the except clause left out
_build_date_no_except(m, d, y, dayfirst) == _build_date_try(m, d, y, dayfirst)

_build_date(m, d, y, dayfirst) ==
    LET r == _build_date_try(m, d, y, dayfirst)
    IN  IF r = ValueError THEN None ELSE r

\* s[i .. i+n-1] exists and is all digits
DigitsAt(s, i, n) ==
    /\ i + n - 1 <= Len(s)
    /\ \A k \in i..(i + n - 1) : IsDigit(s[k])

SepAt(s, i) == i <= Len(s) /\ IsSep(s[i])

TokenLen(lm, ld, ly) == lm + ld + ly + 2

UnderscoreAt(s, i) == i <= Len(s) /\ s[i] = "_"

\* the repetition counts \d{1,2} and \d{2,4} allow
DLens == {1, 2}
YLens == {2, 3, 4}

\* the ways (\d{1,2})[.\-](\d{1,2})[.\-](\d{2,4}) matches s from position i
TokenMatches(s, i) ==
    UNION {UNION {{<<lm, ld, ly>> : ly \in {n \in YLens : DigitsAt(s, i + lm + ld + 2, n)}} :
                    ld \in {n \in DLens : /\ DigitsAt(s, i + lm + 1, n)
                                           /\ SepAt(s, i + lm + 1 + n)}} :
             lm \in {n \in DLens : DigitsAt(s, i, n) /\ SepAt(s, i + n)}}

SingleMatches(s, i) == TokenMatches(s, i)

\* the ways the range pattern (token, "_", token) matches s from position i
RangeMatches(s, i) ==
    UNION {{l \o r : r \in TokenMatches(s, i + TokenLen(l[1], l[2], l[3]) + 1)} :
             l \in {t \in TokenMatches(s, i) :
                       UnderscoreAt(s, i + TokenLen(t[1], t[2], t[3]))}}

\* greedy quantifiers: the backtracking matcher tries longer repetitions
\* first, leftmost group first
RECURSIVE Prio(_)
Prio(l) == IF Len(l) = 0 THEN 0 ELSE 8 * Prio(SubSeq(l, 1, Len(l) - 1)) + l[Len(l)]

\* pattern.search(s): the leftmost start, and there the match the greedy
\* quantifiers prefer; <<0, <<>> >> when nothing matches
\* (matches[i] is the set of ways the pattern matches from position i)
Search(s, matches) ==
    LET starts == {i \in 1..Len(s) : matches[i] # {}}
    IN  IF starts = {} THEN <<0, <<>> >>
        ELSE LET i == CHOOSE j \in starts : \A k \in starts : j <= k
                 ms == matches[i]
                 best == CHOOSE l \in ms : \A u \in ms : Prio(l) >= Prio(u)
             IN  <<i, best>>

\* the three groups of the token that starts at i
Groups(s, i, lm, ld, ly) ==
    <<SubSeq(s, i, i + lm - 1),
      SubSeq(s, i + lm + 1, i + lm + ld),
      SubSeq(s, i + lm + ld + 2, i + lm + ld + ly + 1)>>

CsvSuffix == <<".", "c", "s", "v">>

EndsWithCsv(s) ==
    /\ Len(s) >= 4
    /\ [k \in 1..4 |-> Lower(s[Len(s) - 4 + k])] = CsvSuffix

\* filename[:-4] if filename.lower().endswith(".csv") else filename
Base(s) == IF EndsWithCsv(s) THEN SubSeq(s, 1, Len(s) - 4) ELSE s

extract_dates_from_filename(name, dayfirst) ==
    LET base == Base(name)
        rm == Search(base, [i \in 1..Len(base) |-> RangeMatches(base, i)])
        sm == Search(base, [i \in 1..Len(base) |-> SingleMatches(base, i)])
    IN  IF rm[1] # 0
        THEN LET i == rm[1]
                 l == rm[2]
                 g1 == Groups(base, i, l[1], l[2], l[3])
                 g2 == Groups(base, i + TokenLen(l[1], l[2], l[3]) + 1,
                              l[4], l[5], l[6])
             IN  <<_build_date(g1[1], g1[2], g1[3], dayfirst),
                   _build_date(g2[1], g2[2], g2[3], dayfirst)>>
        ELSE IF sm[1] # 0
        THEN LET i == sm[1]
                 l == sm[2]
                 g1 == Groups(base, i, l[1], l[2], l[3])
             IN  <<_build_date(g1[1], g1[2], g1[3], dayfirst), None>>
        ELSE <<None, None>>

\* a call that lets an exception of _build_date through raises
Raised == <<ValueError, ValueError>>

CallExtract(name) ==
    LET r == extract_dates_from_filename(name, FALSE)
    IN  IF r[1] = ValueError \/ r[2] = ValueError THEN Raised ELSE r

---------------------------------------------------------------------------
(* File names given to extract_dates_from_filename                          *)

Tokens ==
  {
    [txt |-> <<"1", "0", ".", "2", "7", ".", "2", "5">>, m |-> 10, d |-> 27, y |-> 25, ylen |-> 2, valid |-> TRUE],
    [txt |-> <<"1", "1", ".", "2", ".", "2", "5">>, m |-> 11, d |-> 2, y |-> 25, ylen |-> 2, valid |-> TRUE],
    [txt |-> <<"0", "1", "-", "0", "1", "-", "2", "0", "2", "5">>, m |-> 1, d |-> 1, y |-> 2025, ylen |-> 4, valid |-> TRUE],
    [txt |-> <<"2", ".", "2", "9", ".", "2", "0", "2", "4">>, m |-> 2, d |-> 29, y |-> 2024, ylen |-> 4, valid |-> TRUE],
    [txt |-> <<"2", ".", "2", "9", ".", "2", "5">>, m |-> 2, d |-> 29, y |-> 25, ylen |-> 2, valid |-> FALSE],
    [txt |-> <<"1", "3", ".", "1", ".", "2", "5">>, m |-> 13, d |-> 1, y |-> 25, ylen |-> 2, valid |-> FALSE],
    [txt |-> <<"0", ".", "5", ".", "2", "5">>, m |-> 0, d |-> 5, y |-> 25, ylen |-> 2, valid |-> FALSE],
    [txt |-> <<"4", ".", "3", "1", ".", "2", "0", "2", "5">>, m |-> 4, d |-> 31, y |-> 2025, ylen |-> 4, valid |-> FALSE],
    [txt |-> <<"1", ".", "2", ".", "3", "4", "5">>, m |-> 1, d |-> 2, y |-> 345, ylen |-> 3, valid |-> TRUE],
    [txt |-> <<"1", ".", "2", ".", "0", "0", "0", "0">>, m |-> 1, d |-> 2, y |-> 0, ylen |-> 4, valid |-> FALSE],
    [txt |-> <<"0", "5", "-", "0", "9", ".", "2", "0", "2", "4">>, m |-> 5, d |-> 9, y |-> 2024, ylen |-> 4, valid |-> TRUE],
    [txt |-> <<"1", "2", ".", "3", "1", ".", "9", "9">>, m |-> 12, d |-> 31, y |-> 99, ylen |-> 2, valid |-> TRUE]
  }

NoToken == [txt |-> <<>>, m |-> 0, d |-> 0, y |-> 0, ylen |-> 0, valid |-> FALSE]

\* text before the first token, between two tokens, after the last token
Prefixes == {<<>>, <<"x">>, <<"E", "M", "_">>, <<"9">>}
Joiners == {<<"_">>, <<"_", "_">>, <<"-">>}
Suffixes == {<<>>, <<"x">>, <<"_", "v", "2">>, <<"5">>}
Extensions == {<<>>, <<".", "c", "s", "v">>, <<".", "C", "S", "V">>}

\* names with no date token in them
Plain ==
    {<<"r", "e", "p", "o", "r", "t">>, <<"1", "0", ".", "2", "7">>,
     <<"a", "_", "b">>, <<"1", ".", "2", ".", "3">>}

Gens ==
    {[kind |-> "range", pre |-> p, t1 |-> a, join |-> j, t2 |-> b, post |-> q, ext |-> e] :
        p \in Prefixes, a \in Tokens, j \in Joiners, b \in Tokens,
        q \in Suffixes, e \in Extensions}
    \cup
    {[kind |-> "single", pre |-> p, t1 |-> a, join |-> <<>>, t2 |-> NoToken, post |-> q, ext |-> e] :
        p \in Prefixes, a \in Tokens, q \in Suffixes, e \in Extensions}
    \cup
    {[kind |-> "plain", pre |-> p, t1 |-> NoToken, join |-> <<>>, t2 |-> NoToken, post |-> <<>>, ext |-> e] :
        p \in Plain, e \in Extensions}

NameOf(g) == g.pre \o g.t1.txt \o g.join \o g.t2.txt \o g.post \o g.ext

NoDates == <<None, None>>

---------------------------------------------------------------------------
(* app.py: the SCO mapping                                                  *)

\* U+00A0, the non-breaking space
NBSP == "nbsp"
TAB == "tab"

\* what str.strip() removes: Unicode white space, U+00A0 included
IsSpace(c) == c \in {" ", NBSP, TAB}

LowerCase == <<"a", "b", "c", "d", "e", "f", "g", "h", "i", "j", "k", "l", "m", "n", "o", "p", "q", "r", "s", "t", "u", "v", "w", "x", "y", "z">>
UpperCase == <<"A", "B", "C", "D", "E", "F", "G", "H", "I", "J", "K", "L", "M", "N", "O", "P", "Q", "R", "S", "T", "U", "V", "W", "X", "Y", "Z">>

\* str.upper(), one character
Upper(c) ==
    IF \E k \in 1..Len(LowerCase) : LowerCase[k] = c
    THEN UpperCase[CHOOSE k \in 1..Len(LowerCase) : LowerCase[k] = c]
    ELSE c

RECURSIVE lstrip(_)
lstrip(s) == IF Len(s) > 0 /\ IsSpace(s[1]) THEN lstrip(Tail(s)) ELSE s

RECURSIVE rstrip(_)
rstrip(s) ==
    IF Len(s) > 0 /\ IsSpace(s[Len(s)]) THEN rstrip(SubSeq(s, 1, Len(s) - 1)) ELSE s

strip(s) == rstrip(lstrip(s))

upper(s) == [k \in 1..Len(s) |-> Upper(s[k])]

\* s.replace(old, new) for one-character old and new
replace(s, old, new) == [k \in 1..Len(s) |-> IF s[k] = old THEN new ELSE s[k]]

\* a cell of a parsed table: a string, or the missing value NaN
StrCell(s) == [kind |-> "str", v |-> s]
NaNCell == [kind |-> "nan", v |-> <<>>]

\* str(x)
str(x) == IF x.kind = "nan" THEN <<"n", "a", "n">> ELSE x.v

\* str.strip(" "), which leaves U+00A0 and tabs in place
RECURSIVE strip_blanks(_)
strip_blanks(s) ==
    IF Len(s) > 0 /\ s[1] = " " THEN strip_blanks(Tail(s))
    ELSE IF Len(s) > 0 /\ s[Len(s)] = " " THEN strip_blanks(SubSeq(s, 1, Len(s) - 1))
    ELSE s

_norm_key_strip_blanks(s) == replace(upper(strip_blanks(str(s))), NBSP, " ")

_norm_key(s) == replace(upper(strip(str(s))), NBSP, " ")

SCO_MAP_RAW ==
    <<
      [k |-> <<"C", "R", "U", "Z", ";", " ", "A", "S", "H", "L", "I", "E">>,
       v |-> <<"A", "s", "h", "l", "i", "e">>],
      [k |-> <<"F", "I", "T", "Z", "G", "E", "R", "A", "L", "D", ";", " ", "Z", "A", "C", "H", "A", "R", "Y">>,
       v |-> <<"Z", "a", "c", "h">>],
      [k |-> <<"G", "R", "A", "B", "A", "R", "Z", ";", " ", "F", "R", "A", "N", "K">>,
       v |-> <<"F", "r", "a", "n", "k">>],
      [k |-> <<"J", "A", "C", "K", "S", ";", " ", "M", "E", "L", "I", "S", "S", "S", "A">>,
       v |-> <<"M", "e", "l", "i", "s", "s", "a">>],
      [k |-> <<"M", "C", "A", "F", "E", "E", ";", " ", "C", "L", "I", "F", "F", "O", "R", "D">>,
       v |-> <<"C", "l", "i", "f">>],
      [k |-> <<"P", "O", "S", "T", ";", " ", "T", "O", "D", "D">>,
       v |-> <<"T", "o", "d", "d">>],
      [k |-> <<"R", "A", "I", "N", "S", ";", " ", "S", "A", "V", "A", "N", "N", "A">>,
       v |-> <<"S", "a", "v", "a", "n", "n", "a">>],
      [k |-> <<"W", "O", "J", "T", "I", "U", "K", ";", " ", "B", "R", "A", "D", "L", "E", "Y">>,
       v |-> <<"B", "r", "a", "d">>],
      [k |-> <<"M", "O", "U", "L", "D", "E", "N", ";", " ", "M", "A", "T", "T", "H", "E", "W">>,
       v |-> <<"M", "a", "t", "t", "h", "e", "w">>],
      [k |-> <<"V", "A", "N", "D", "A", ";", " ", "J", "E", "S", "S", "I", "C", "A">>,
       v |-> <<"J", "e", "s", "s", "i", "c", "a">>],
      [k |-> <<"E", "M", "O", "N", "D", ";", " ", "E", "L", "I", "J", "A", "H">>,
       v |-> <<"E", "l", "i", "j", "a", "h">>],
      [k |-> <<"B", "U", "T", "T", "E", "R", "F", "I", "E", "L", "D", ";", " ", "K", "A", "T", "H", "E", "R", "I", "N", "E">>,
       v |-> <<"K", "a", "t", "h", "e", "r", "i", "n", "e">>],
      [k |-> <<"C", "O", "S", "S", ";", " ", "S", "A", "V", "A", "N", "N", "A">>,
       v |-> <<"S", "a", "v", "a", "n", "n", "a">>],
      [k |-> <<"M", "O", "N", "T", "R", "O", "S", ";", " ", "D", "E", "N", "N", "I", "S">>,
       v |-> <<"D", "e", "n", "n", "i", "s">>],
      [k |-> <<"A", "G", "N", "E", "W", ";", " ", "J", "A", "C", "Q", "U", "E", "L", "I", "N", "E">>,
       v |-> <<"J", "a", "c", "k", "i", "e">>],
      [k |-> <<"A", "G", "N", "E", "W", ";", " ", "J", "A", "Q", "U", "E", "L", "I", "N", "E">>,
       v |-> <<"J", "a", "c", "k", "i", "e">>]
    >>

\* {_norm_key(k): v for k, v in SCO_MAP_RAW.items()}: a later entry wins
SCO_MAP ==
    LET keys == {_norm_key(StrCell(SCO_MAP_RAW[i].k)) : i \in 1..Len(SCO_MAP_RAW)}
    IN  [n \in keys |->
            LET is == {i \in 1..Len(SCO_MAP_RAW) : _norm_key(StrCell(SCO_MAP_RAW[i].k)) = n}
                last == CHOOSE i \in is : \A j \in is : j <= i
            IN  SCO_MAP_RAW[last].v]

\* the missing value of a column of display names (no string is equal to it)
NaN == <<"NaN">>

\* Series.map(SCO_MAP), one cell: the value, NaN for a key the dict lacks
map_SCO_MAP(n) == IF n \in DOMAIN SCO_MAP THEN SCO_MAP[n] ELSE NaN

\* Series.fillna(""), one cell
fillna(v) == IF v = NaN THEN <<>> ELSE v

\* df["SCO"].map(_norm_key), then .map(SCO_MAP).fillna(""), one cell
SCO2Of(cell) == fillna(map_SCO_MAP(_norm_key(cell)))

---------------------------------------------------------------------------
(* Raw SCO cells                                                            *)

\* labels the map does not hold
Unmapped ==
    {<<"S", "M", "I", "T", "H", ";", " ", "J", "O", "H", "N">>,
     <<"A", "G", "N", "E", "W", ";", "J", "A", "C", "Q", "U", "E", "L", "I", "N", "E">>,
     <<"J", "A", "C", "K", "S", ";", " ", "M", "E", "L", "I", "S", "S", "A">>,
     <<>>}

Cores == {SCO_MAP_RAW[i].k : i \in 1..Len(SCO_MAP_RAW)} \cup Unmapped

Pads == {<<>>, <<" ">>, <<NBSP>>, <<TAB, " ">>}

\* str.lower(), one character
LowerOf(c) ==
    IF \E k \in 1..Len(UpperCase) : UpperCase[k] = c
    THEN LowerCase[CHOOSE k \in 1..Len(UpperCase) : UpperCase[k] = c]
    ELSE c

Vary(s, how) ==
    CASE how = "lower" -> [k \in 1..Len(s) |-> LowerOf(s[k])]
      [] how = "nbsp" -> [k \in 1..Len(s) |-> IF s[k] = " " THEN NBSP ELSE s[k]]
      [] OTHER -> s

Variations == {"asis", "lower", "nbsp"}

SGens ==
    {[nan |-> FALSE, core |-> c, how |-> h, pre |-> p, post |-> q] :
        c \in Cores, h \in Variations, p \in Pads, q \in Pads}
    \cup {[nan |-> TRUE, core |-> <<>>, how |-> "asis", pre |-> <<>>, post |-> <<>>]}

CellOf(g) == IF g.nan THEN NaNCell ELSE StrCell(g.pre \o Vary(g.core, g.how) \o g.post)

---------------------------------------------------------------------------
(* functions.py: robust_read_csv                                            *)
(* The decoded text is kept as its lines (text.splitlines()), each a        *)
(* sequence of characters.  Cells are read as strings: pandas' inference    *)
(* of numbers and the renaming of repeated or empty header names are not    *)
(* modelled, and neither are quoted fields.                                 *)

Min(a, b) == IF a <= b THEN a ELSE b

\* the candidates handed to csv.Sniffer().sniff and the fallback ","
Delims == {",", ";", TAB, "|"}

\* what csv.reader makes of a line that is not empty
RECURSIVE SplitLine(_, _)
SplitLine(s, sp) ==
    IF \A k \in 1..Len(s) : s[k] # sp THEN <<s>>
    ELSE LET k == CHOOSE j \in 1..Len(s) :
                     s[j] = sp /\ \A i \in 1..(j - 1) : s[i] # sp
         IN  <<SubSeq(s, 1, k - 1)>> \o SplitLine(SubSeq(s, k + 1, Len(s)), sp)

\* csv.reader, one line: an empty line is the row []
Split(s, sp) == IF Len(s) = 0 THEN <<>> ELSE SplitLine(s, sp)

\* csv.reader(lines, delimiter=sep), all rows
Reader(lines, sp) == [i \in 1..Len(lines) |-> Split(lines[i], sp)]

MaxCols == 40

\* keep_cols
KeepColsUncapped(total) == total

KeepCols(total) == Min(MaxCols, total)

\* the number of rows after the header with fewer than keep fields
RECURSIVE CountShort(_, _)
CountShort(rows, keep) ==
    IF Len(rows) = 0 THEN 0
    ELSE (IF Len(rows[1]) < keep THEN 1 ELSE 0) + CountShort(Tail(rows), keep)

\* a table: its column names in order and its rows, each a sequence of
\* cells in the order of the columns
DataFrame(cols, rows) == [columns |-> cols, rows |-> rows]
EmptyFrame == DataFrame(<<>>, <<>>)

\* what a call produced
\* (error names the exception; value is what a return hands back)
NoValue == [df |-> EmptyFrame, skipped |-> 0]
Returned(v) == [raised |-> FALSE, error |-> "", value |-> v]
Raise(e) == [raised |-> TRUE, error |-> e, value |-> NoValue]

NotBlank(row) == Len(row) > 0

\* the python engine pads a row that is short of the header with missing
\* values and usecols then takes the columns 0 .. keep-1; a row is dropped
\* as bad only when usecols is None; an empty field reads as missing
PadTake(row, keep) ==
    [k \in 1..keep |->
        IF k <= Len(row) /\ Len(row[k]) > 0 THEN StrCell(row[k]) ELSE NaNCell]

\* pd.read_csv(io.StringIO(text), sep=sep, engine="python",
\*             on_bad_lines="skip", usecols=range(keep))
\* blank lines are skipped; the first line left is the header; no line left
\* is EmptyDataError; a usecols index the header lacks is ParserError
read_csv(lines, sp, keep) ==
    LET rows == SelectSeq(Reader(lines, sp), NotBlank)
    IN  IF Len(rows) = 0 THEN Raise("EmptyDataError")
        ELSE IF keep > Len(rows[1]) THEN Raise("ParserError")
        ELSE IF keep = 0 THEN Returned(EmptyFrame)
        ELSE Returned(DataFrame(SubSeq(rows[1], 1, keep),
                                [r \in 1..(Len(rows) - 1) |-> PadTake(rows[r + 1], keep)]))

\* robust_read_csv once the delimiter is sniffed, as one function
robust_read_csv(lines, sp) ==
    IF Len(lines) = 0 THEN Returned([df |-> EmptyFrame, skipped |-> 0])
    ELSE LET rows == Reader(lines, sp)
             keep == KeepCols(Len(rows[1]))
             parsed == read_csv(lines, sp, keep)
         IN  IF parsed.raised THEN parsed
             ELSE Returned([df |-> parsed.value,
                            skipped |-> CountShort(Tail(rows), keep)])

---------------------------------------------------------------------------
(* CSV contents given to robust_read_csv                                    *)

SmallHeader == 3
ExtraCols == 5
MaxRows == 2
MaxLead == 1

DigitChar == <<"0", "1", "2", "3", "4", "5", "6", "7", "8", "9">>

RECURSIVE IntChars(_)
IntChars(n) ==
    IF n < 10 THEN <<DigitChar[n + 1]>>
    ELSE IntChars(n \div 10) \o <<DigitChar[(n % 10) + 1]>>

\* the name of the i-th header field and the text of the cells of row r
ColName(i) == <<"c">> \o IntChars(i)
CellText(r) == <<"v">> \o IntChars(r)

RECURSIVE Join(_, _)
Join(fields, sp) ==
    IF Len(fields) = 0 THEN <<>>
    ELSE IF Len(fields) = 1 THEN fields[1]
    ELSE fields[1] \o <<sp>> \o Join(Tail(fields), sp)

\* the delimiter the file is written with
FileSeps == {",", ";"}

HeaderWidths ==
    (1..SmallHeader) \cup {MaxCols - 1, MaxCols, MaxCols + 1, MaxCols + ExtraCols}

\* numbers of fields of a data row under a header of h fields: none (a
\* blank line), one, around the kept column count, and up to h
RowWidths(h) ==
    {w \in {0, 1, MaxCols - 1, MaxCols, MaxCols + 1, h - 1, h} : 0 <= w /\ w <= h}

WidthSeqs(h) == UNION {[1..n -> RowWidths(h)] : n \in 0..MaxRows}

\* lead blank lines, then a header of h fields and one row per width; h = 0
\* stands for no header line and no rows
CsvGens ==
    {[lead |-> l, h |-> 0, widths |-> <<>>, fs |-> ","] : l \in 0..(MaxLead + 1)}
    \cup
    UNION {{[lead |-> l, h |-> hh, widths |-> ws, fs |-> f] :
               l \in 0..MaxLead, ws \in WidthSeqs(hh), f \in FileSeps} :
           hh \in HeaderWidths}

TextOf(g) ==
    [i \in 1..g.lead |-> <<>>]
    \o (IF g.h = 0 THEN <<>>
        ELSE <<Join([i \in 1..g.h |-> ColName(i)], g.fs)>>
             \o [r \in 1..Len(g.widths) |->
                    Join([k \in 1..g.widths[r] |-> CellText(r)], g.fs)])

---------------------------------------------------------------------------
(* app.py: the enrichment of one parsed table                               *)

Year == <<"Y", "e", "a", "r">>
Month == <<"M", "o", "n", "t", "h">>
From == <<"F", "r", "o", "m">>
To == <<"T", "o">>
SCO == <<"S", "C", "O">>
SCO2 == <<"S", "C", "O", "2">>
_source_file == <<"_", "s", "o", "u", "r", "c", "e", "_", "f", "i", "l", "e">>
BeginDate == <<"B", "e", "g", "i", "n", " ", "D", "a", "t", "e">>
EndDate == <<"E", "n", "d", " ", "D", "a", "t", "e">>

_REQUIRED_DATE_COLS ==
    <<BeginDate, EndDate, <<"S", "u", "b", "m", "i", "s", "s", "i", "o", "n", " ", "D", "a", "t", "e">>,
      <<"A", "m", "e", "n", "d", "m", "e", "n", "t", " ", "E", "f", "f", "e", "c", "t", "i", "v", "e", " ", "D", "a", "t", "e">>>>

\* strftime("%b")
MonthAbbr ==
    <<<<"J", "a", "n">>,
      <<"F", "e", "b">>,
      <<"M", "a", "r">>,
      <<"A", "p", "r">>,
      <<"M", "a", "y">>,
      <<"J", "u", "n">>,
      <<"J", "u", "l">>,
      <<"A", "u", "g">>,
      <<"S", "e", "p">>,
      <<"O", "c", "t">>,
      <<"N", "o", "v">>,
      <<"D", "e", "c">>>>

\* cells other than strings: an integer, a pd.Timestamp (kept as the text of
\* its date) and the missing time NaT
IntCell(n) == [kind |-> "int", v |-> IntChars(n)]
Timestamp(d) ==
    LET TwoDigits(n) == IF n < 10 THEN <<"0">> \o IntChars(n) ELSE IntChars(n)
    IN  [kind |-> "datetime",
         v |-> IntChars(d.y) \o <<"-">> \o TwoDigits(d.m) \o <<"-">> \o TwoDigits(d.d)]
NaT == [kind |-> "NaT", v |-> <<>>]

\* name in t.columns
HasColumn(t, name) == \E k \in 1..Len(t.columns) : t.columns[k] = name

\* t.columns.get_loc(name), counted from 1
get_loc(t, name) == CHOOSE k \in 1..Len(t.columns) : t.columns[k] = name

InsertAt(s, loc, x) == SubSeq(s, 1, loc) \o <<x>> \o SubSeq(s, loc + 1, Len(s))

\* a scalar as a column of t
Broadcast(t, cell) == [r \in 1..Len(t.rows) |-> cell]

\* DataFrame.insert(loc, name, value) on the table res holds: loc counts
\* from 0; a column of that name already in the table is ValueError; an
\* exception raised before passes through
insert(res, loc, name, cells) ==
    IF res.raised THEN res
    ELSE IF HasColumn(res.value, name) THEN Raise("ValueError")
    ELSE Returned(DataFrame(InsertAt(res.value.columns, loc, name),
                            [r \in 1..Len(res.value.rows) |->
                                InsertAt(res.value.rows[r], loc, cells[r])]))

\* t[name] = value: an existing column is overwritten where it is, a new
\* one is added at the end
setitem(t, name, cells) ==
    IF HasColumn(t, name)
    THEN DataFrame(t.columns,
                   [r \in 1..Len(t.rows) |->
                       [k \in 1..Len(t.columns) |->
                           IF k = get_loc(t, name) THEN cells[r] ELSE t.rows[r][k]]])
    ELSE DataFrame(Append(t.columns, name),
                   [r \in 1..Len(t.rows) |-> Append(t.rows[r], cells[r])])

\* the Timestamp of the date M/D/YYYY written in parts, or NaT
SlashDate(parts) ==
    IF /\ Len(parts) = 3
       /\ \A k \in 1..3 : Len(parts[k]) > 0 /\ \A j \in 1..Len(parts[k]) : IsDigit(parts[k][j])
       /\ Len(parts[1]) <= 2 /\ Len(parts[2]) <= 2 /\ Len(parts[3]) = 4
       /\ date(int(parts[3]), int(parts[1]), int(parts[2])) # ValueError
    THEN Timestamp(date(int(parts[3]), int(parts[1]), int(parts[2])))
    ELSE NaT

\* pd.to_datetime(series, errors="coerce"), one cell.  Of the texts pandas
\* reads as a date only M/D/YYYY is modelled; any other text, and a missing
\* cell, becomes NaT
to_datetime_coerce(cell) ==
    IF cell.kind = "datetime" THEN cell
    ELSE IF cell.kind # "str" \/ Len(cell.v) = 0 THEN NaT
    ELSE SlashDate(SplitLine(cell.v, "/"))

\* the columns named in cols that t holds, each passed through to_datetime
CoerceColumns(t, cols) ==
    DataFrame(t.columns,
              [r \in 1..Len(t.rows) |->
                  [k \in 1..Len(t.columns) |->
                      IF \E c \in 1..Len(cols) : cols[c] = t.columns[k]
                      THEN to_datetime_coerce(t.rows[r][k])
                      ELSE t.rows[r][k]]])

coerce_named_date_columns(t) == CoerceColumns(t, _REQUIRED_DATE_COLS)

\* the position df.insert gives the SCO2 column, had it been the one right
\* after the SCO column
SCO2LocAfterSCO(t) == get_loc(t, SCO)

\* the position df.insert gives the SCO2 column
SCO2Loc(t) == 4

\* if "SCO" in df.columns: df.insert(4, "SCO2", ...)
InsertSCO2(res) ==
    IF res.raised \/ ~HasColumn(res.value, SCO) THEN res
    ELSE insert(res, SCO2Loc(res.value), SCO2,
                [r \in 1..Len(res.value.rows) |->
                    StrCell(SCO2Of(res.value.rows[r][get_loc(res.value, SCO)]))])

\* from_dt and to_dt: f_from or fallback_from, f_to or fallback_to
Period(ds, fb) ==
    IF ds = Raised THEN Raised
    ELSE <<IF ds[1] # None THEN ds[1] ELSE fb[1], IF ds[2] # None THEN ds[2] ELSE fb[2]>>

\* df = coerce_named_date_columns(df); df["_source_file"] = name
Track(res, name) ==
    IF res.raised THEN res
    ELSE Returned(setitem(coerce_named_date_columns(res.value), _source_file,
                          Broadcast(res.value, StrCell(name))))

\* the new columns, the SCO mapping, the coercion and the source column
EnrichWith(t, name, period) ==
    IF period = Raised THEN Raise("ValueError")
    ELSE Track(InsertSCO2(
             insert(insert(insert(insert(Returned(t),
                 0, Year, Broadcast(t, IntCell(period[1].y))),
                 1, Month, Broadcast(t, StrCell(MonthAbbr[period[1].m]))),
                 2, From, Broadcast(t, Timestamp(period[1]))),
                 3, To, Broadcast(t, Timestamp(period[2])))), name)

\* the body of the loop after robust_read_csv has returned t: the table
\* appended to frames, or the exception that leaves the loop
Enrich(t, name, fb) == EnrichWith(t, name, Period(CallExtract(name), fb))

\* one pass of the loop on file f: the exception, or the per-file table;
\* skipped is what the pass adds to the total
Pass(read, enriched) ==
    IF read.raised THEN [raised |-> TRUE, error |-> read.error, table |-> EmptyFrame, skipped |-> 0]
    ELSE [raised |-> enriched.raised, error |-> enriched.error,
          table |-> IF enriched.raised THEN EmptyFrame ELSE enriched.value,
          skipped |-> read.value.skipped]

ProcessFile(f, fb) ==
    Pass(robust_read_csv(f.lines, f.sniffed),
         Enrich(robust_read_csv(f.lines, f.sniffed).value.df, f.name, fb))

---------------------------------------------------------------------------
(* app.py: the unification of the per-file tables and what follows it       *)

\* the columns of a, then the columns only b has
UnionColumns(a, b) ==
    LET New(c) == ~HasColumn(a, c)
    IN  a.columns \o SelectSeq(b.columns, New)

\* the rows of t laid out under cols, missing where t lacks the column
Reindex(t, cols) ==
    [r \in 1..Len(t.rows) |->
        [k \in 1..Len(cols) |->
            IF HasColumn(t, cols[k]) THEN t.rows[r][get_loc(t, cols[k])] ELSE NaNCell]]

\* two tables unified with the rows of the later table first
concat_pair_newest_first(a, b) ==
    DataFrame(UnionColumns(a, b),
              Reindex(b, UnionColumns(a, b)) \o Reindex(a, UnionColumns(a, b)))

\* pd.concat([a, b], ignore_index=True)
concat_pair(a, b) ==
    DataFrame(UnionColumns(a, b),
              Reindex(a, UnionColumns(a, b)) \o Reindex(b, UnionColumns(a, b)))

\* pd.concat(frames, ignore_index=True), frames not empty
RECURSIVE pd_concat(_)
pd_concat(fr) ==
    IF Len(fr) = 1 THEN fr[1]
    ELSE concat_pair(pd_concat(SubSeq(fr, 1, Len(fr) - 1)), fr[Len(fr)])

\* DataFrame.empty
Empty(t) == Len(t.rows) = 0 \/ Len(t.columns) = 0

\* the review of the rows with no SCO match: SCO2.isna() |
\* (SCO2.astype(str).str.strip() == ""), and then
\* missing_sco[["SCO", "Facility Code", "Begin Date", "End Date"]], which
\* is KeyError when the unified table lacks one of the four
ReviewRaises(t) ==
    /\ ~Empty(t)
    /\ HasColumn(t, SCO2)
    /\ \E r \in 1..Len(t.rows) :
           \/ t.rows[r][get_loc(t, SCO2)].kind = "nan"
           \/ strip(str(t.rows[r][get_loc(t, SCO2)])) = <<>>
    /\ \E c \in {SCO, <<"F", "a", "c", "i", "l", "i", "t", "y", " ", "C", "o", "d", "e">>,
                  BeginDate, EndDate} : ~HasColumn(t, c)

\* the columns write_sheet turns into dates
SheetDateCols == <<From, To>> \o _REQUIRED_DATE_COLS

\* .dt.date on the columns named in cols: a Timestamp becomes its date
DatesOnly(t, cols) ==
    DataFrame(t.columns,
              [r \in 1..Len(t.rows) |->
                  [k \in 1..Len(t.columns) |->
                      IF /\ \E j \in 1..Len(cols) : cols[j] = t.columns[k]
                         /\ t.rows[r][k].kind = "datetime"
                      THEN [kind |-> "date", v |-> t.rows[r][k].v]
                      ELSE t.rows[r][k]]])

\* write_sheet: df[col] = pd.to_datetime(df[col], errors="coerce").dt.date
\* for the date columns the table holds, on the table itself
write_sheet(t) == DatesOnly(CoerceColumns(t, SheetDateCols), SheetDateCols)

\* one entry of per_file_stats
Stat(name, t, sk) ==
    [file |-> name, rows |-> Len(t.rows), cols |-> Len(t.columns), skipped |-> sk]

\* where the button handler is once an exception was raised in it: no
\* try/except encloses the loops, so the exception leaves the handler
OnExceptionSkipFile(at) == at

OnException(at) == "aborted"

---------------------------------------------------------------------------
(* Uploaded files: a name, the lines of the decoded text and the delimiter  *)
(* the sniffer settles on.  The names hold years pd.Timestamp can hold.     *)

Uploads ==
    <<
    \* a weekly report with a short last row
    [name |-> <<"1", "0", ".", "2", "7", ".", "2", "5", "_", "1", "1", ".", "2", ".", "2", "5", ".", "c", "s", "v">>,
     lines |-> <<<<"S", "C", "O", ",", "F", "a", "c", "i", "l", "i", "t", "y", " ", "C", "o", "d", "e", ",", "B", "e", "g", "i", "n", " ", "D", "a", "t", "e", ",", "E", "n", "d", " ", "D", "a", "t", "e">>,
                 <<"C", "R", "U", "Z", ";", " ", "A", "S", "H", "L", "I", "E", ",", "F", "1", "1", ",", "1", "0", "/", "2", "7", "/", "2", "0", "2", "5", ",", "1", "1", "/", "2", "/", "2", "0", "2", "5">>,
                 <<" ", "a", "g", "n", "e", "w", ";", " ", "j", "a", "q", "u", "e", "l", "i", "n", "e", ",", "F", "1", "2", ",", "1", "0", "/", "2", "8", "/", "2", "0", "2", "5", ",", "T", "B", "D">>,
                 <<"S", "M", "I", "T", "H", ";", " ", "J", "O", "H", "N", ",", "F", "1", "3">>>>,
     sniffed |-> ","],
    \* a name with no date in it
    [name |-> <<"r", "e", "p", "o", "r", "t", ".", "c", "s", "v">>,
     lines |-> <<<<"A", ",", "S", "C", "O">>,
                 <<"x", "1", ",", "P", "O", "S", "T", ";", " ", "T", "O", "D", "D">>>>,
     sniffed |-> ","],
    \* a single date in the name, semicolons as the delimiter
    [name |-> <<"1", ".", "2", ".", "2", "5", ".", "c", "s", "v">>,
     lines |-> <<<<"A", ";", "B">>,
                 <<"p", ";", "q">>,
                 <<"r", ";", "s">>>>,
     sniffed |-> ";"],
    \* blank lines only
    [name |-> <<"1", "2", ".", "1", ".", "2", "5", "_", "1", "2", ".", "7", ".", "2", "5", ".", "c", "s", "v">>,
     lines |-> <<<<>>>>,
     sniffed |-> ","],
    \* no lines at all
    [name |-> <<"e", "m", "p", "t", "y", ".", "c", "s", "v">>,
     lines |-> <<>>,
     sniffed |-> ","],
    \* a column named Year
    [name |-> <<"1", "1", ".", "3", ".", "2", "5", "_", "1", "1", ".", "9", ".", "2", "5", ".", "c", "s", "v">>,
     lines |-> <<<<"Y", "e", "a", "r", ",", "A">>,
                 <<"Y", "2", "5", ",", "a", "1">>>>,
     sniffed |-> ","],
    \* a column named _source_file
    [name |-> <<"1", "1", ".", "1", "0", ".", "2", "5", "_", "1", "1", ".", "1", "6", ".", "2", "5", ".", "c", "s", "v">>,
     lines |-> <<<<"_", "s", "o", "u", "r", "c", "e", "_", "f", "i", "l", "e", ",", "S", "C", "O">>,
                 <<"o", "l", "d", ",", "R", "A", "I", "N", "S", ";", " ", "S", "A", "V", "A", "N", "N", "A">>>>,
     sniffed |-> ","]
    >>

DetailPool == {Uploads[k] : k \in 1..Len(Uploads)}
SummaryPool == {Uploads[1], Uploads[3], Uploads[4]}

MaxFiles == 2
MaxSummaryFiles == 1

Batches(pool, n) == UNION {[1..k -> pool] : k \in 0..n}

\* detected_overall_period(files), or today twice: functions.py does not
\* define detected_overall_period, so the period is an input
Fallbacks ==
    {<<Date(2025, 10, 1), Date(2025, 10, 31)>>, <<Date(2026, 1, 5), Date(2026, 1, 5)>>}

---------------------------------------------------------------------------
(* functions.py: export_xlsx_bytes                                          *)
(* The workbook is kept as the table written to it; base_dir is None or a   *)
(* path, and the file system is what it holds at that path.                 *)

\* base_dir=None
NoDir == <<>>

\* the file system at base_dir: what is at the path ("absent", "dir" or
\* "file"), whether the path can be created, whether a file can be written
\* in the directory, and the bytes saved under filename
Fs(p, cc, cw) == [path |-> p, can_create |-> cc, can_write |-> cw, saved |-> <<>>]

\* the workbook output.getvalue() holds after df.to_excel
Workbook(t) == [sheet |-> "EMR - Detail", columns |-> t.columns, rows |-> t.rows]

\* pd.to_datetime(val) in the Month loop needs a non-missing Month cell
\* that is not a Timestamp to be parsed as a date
ParsesMonthText(t) ==
    /\ HasColumn(t, Month)
    /\ \E r \in 1..Len(t.rows) : t.rows[r][get_loc(t, Month)].kind \notin {"nan", "NaT", "datetime"}

\* base_dir.mkdir(parents=True, exist_ok=True)
mkdir(f) ==
    CASE f.path = "dir" -> Returned(f)
      [] f.path = "file" -> Raise("FileExistsError")
      [] OTHER -> IF f.can_create THEN Returned([f EXCEPT !.path = "dir"])
                  ELSE Raise("PermissionError")

\* a write that gives up silently where the directory is not writable
write_bytes_best_effort(f, data) ==
    Returned(IF f.can_write THEN [f EXCEPT !.saved = <<data>>] ELSE f)

\* (base_dir / filename).write_bytes(data)
write_bytes(f, data) ==
    IF f.can_write THEN Returned([f EXCEPT !.saved = <<data>>])
    ELSE Raise("PermissionError")

---------------------------------------------------------------------------
(* Arguments of export_xlsx_bytes                                           *)

Readable(f) == ~robust_read_csv(f.lines, f.sniffed).raised
Parsed(f) == robust_read_csv(f.lines, f.sniffed).value.df

\* parsed tables, and the tables the detail loop makes of them
ExportTables ==
    {Parsed(f) : f \in {g \in DetailPool : Readable(g)}}
    \cup UNION {{Enrich(Parsed(f), f.name, fb).value :
                    f \in {g \in DetailPool :
                              Readable(g) /\ ~Enrich(Parsed(g), g.name, fb).raised}} :
                 fb \in Fallbacks}

FsStates == {Fs(p, cc, cw) : p \in {"absent", "dir", "file"}, cc \in BOOLEAN, cw \in BOOLEAN}

---------------------------------------------------------------------------
(* The components as state machines                                         *)

\* the variables of a component that is not running
IdleDates == filename = <<>> /\ gen = <<>> /\ dates = NoDates
IdleSco == raw = <<>> /\ sgen = <<>> /\ cleaned = <<>> /\ sco2 = <<>>

NoResult == [raised |-> FALSE, error |-> "pending", value |-> NoValue]

IdleCsv ==
    /\ text = <<>> /\ cgen = <<>> /\ sep = "" /\ header = <<>>
    /\ total_cols = 0 /\ keep_cols = 0 /\ skipped = 0 /\ result = NoResult

IdleBatch ==
    /\ files = <<>> /\ summary_files = <<>>
    /\ fallback = NoDates /\ s_fallback = NoDates /\ cursor = 0
    /\ frames = <<>> /\ total_skipped = 0 /\ per_file_stats = <<>>
    /\ unified_detail = <<>>
    /\ sum_frames = <<>> /\ sum_skipped = 0 /\ sum_stats = <<>>
    /\ unified_summary = <<>>
    /\ error = ""

IdleExport ==
    /\ xdf = EmptyFrame /\ base_dir = NoDir /\ fs = Fs("absent", FALSE, FALSE)
    /\ output = <<>> /\ blob = NoResult

---------------------------------------------------------------------------
(* extract_dates_from_filename, one call                                    *)

InitDates ==
    /\ pc = "call"
    /\ gen \in Gens
    /\ filename = NameOf(gen)
    /\ dates = NoDates
    /\ IdleSco /\ IdleCsv /\ IdleBatch /\ IdleExport

ExtractDates ==
    /\ pc = "call"
    /\ dates' = CallExtract(filename)
    /\ pc' = IF dates' = Raised THEN "raised" ELSE "returned"
    /\ UNCHANGED <<filename, gen>>
    /\ UNCHANGED <<scoVars, csvVars, batchVars, exportVars>>

NextDates == ExtractDates

SpecDates == InitDates /\ [][NextDates]_vars

---------------------------------------------------------------------------
(* The SCO mapping, one cell                                                *)

InitSco ==
    /\ pc = "cell"
    /\ sgen \in SGens
    /\ raw = CellOf(sgen)
    /\ cleaned = <<>>
    /\ sco2 = <<>>
    /\ IdleDates /\ IdleCsv /\ IdleBatch /\ IdleExport

\* cleaned_sco = df["SCO"].map(_norm_key)
NormaliseCell ==
    /\ pc = "cell"
    /\ cleaned' = _norm_key(raw)
    /\ pc' = "cleaned"
    /\ UNCHANGED <<raw, sgen, sco2>>
    /\ UNCHANGED <<dateVars, csvVars, batchVars, exportVars>>

\* df.insert(4, "SCO2", cleaned_sco.map(SCO_MAP).fillna(""))
MapCell ==
    /\ pc = "cleaned"
    /\ sco2' = fillna(map_SCO_MAP(cleaned))
    /\ pc' = "mapped"
    /\ UNCHANGED <<raw, sgen, cleaned>>
    /\ UNCHANGED <<dateVars, csvVars, batchVars, exportVars>>

NextSco == NormaliseCell \/ MapCell

SpecSco == InitSco /\ [][NextSco]_vars

---------------------------------------------------------------------------
(* robust_read_csv, one call                                                *)

InitCsv ==
    /\ pc = "sniff"
    /\ cgen \in CsvGens
    /\ text = TextOf(cgen)
    /\ sep = "" /\ header = <<>>
    /\ total_cols = 0 /\ keep_cols = 0 /\ skipped = 0 /\ result = NoResult
    /\ IdleDates /\ IdleSco /\ IdleBatch /\ IdleExport

\* sep = csv.Sniffer().sniff(sample, delimiters=...).delimiter, or ","
\* (the heuristics are not modelled: any candidate may come out)
Sniff ==
    /\ pc = "sniff"
    /\ sep' \in Delims
    /\ pc' = "header"
    /\ UNCHANGED <<text, cgen, header, total_cols, keep_cols, skipped, result>>
    /\ UNCHANGED <<dateVars, scoVars, batchVars, exportVars>>

\* header = next(reader); StopIteration returns (pd.DataFrame(), 0)
ReadHeader ==
    /\ pc = "header"
    /\ IF Len(text) = 0
       THEN /\ result' = Returned([df |-> EmptyFrame, skipped |-> 0])
            /\ pc' = "returned"
            /\ UNCHANGED <<header, total_cols, keep_cols>>
       ELSE /\ header' = Reader(text, sep)[1]
            /\ total_cols' = Len(header')
            /\ keep_cols' = KeepCols(total_cols')
            /\ pc' = "count"
            /\ UNCHANGED result
    /\ UNCHANGED <<text, cgen, sep, skipped>>
    /\ UNCHANGED <<dateVars, scoVars, batchVars, exportVars>>

\* for row in reader: if len(row) < keep_cols: skipped += 1
CountSkipped ==
    /\ pc = "count"
    /\ skipped' = CountShort(Tail(Reader(text, sep)), keep_cols)
    /\ pc' = "parse"
    /\ UNCHANGED <<text, cgen, sep, header, total_cols, keep_cols, result>>
    /\ UNCHANGED <<dateVars, scoVars, batchVars, exportVars>>

\* df = pd.read_csv(...); return df, skipped
ParseCsv ==
    /\ pc = "parse"
    /\ LET parsed == read_csv(text, sep, keep_cols)
       IN  IF parsed.raised
           THEN result' = parsed /\ pc' = "raised"
           ELSE /\ result' = Returned([df |-> parsed.value, skipped |-> skipped])
                /\ pc' = "returned"
    /\ UNCHANGED <<text, cgen, sep, header, total_cols, keep_cols, skipped>>
    /\ UNCHANGED <<dateVars, scoVars, batchVars, exportVars>>

NextCsv == Sniff \/ ReadHeader \/ CountSkipped \/ ParseCsv

SpecCsv == InitCsv /\ [][NextCsv]_vars

---------------------------------------------------------------------------
(* app.py: the handler of the "Build & Export" button                       *)
(* f.seek(0) and the messages shown on the page change nothing kept here.   *)

Init ==
    /\ pc = "detail"
    /\ files \in Batches(DetailPool, MaxFiles)
    /\ summary_files \in Batches(SummaryPool, MaxSummaryFiles)
    /\ fallback \in Fallbacks
    /\ s_fallback \in Fallbacks
    /\ cursor = 1
    /\ frames = <<>> /\ total_skipped = 0 /\ per_file_stats = <<>>
    /\ unified_detail = <<>>
    /\ sum_frames = <<>> /\ sum_skipped = 0 /\ sum_stats = <<>>
    /\ unified_summary = <<>>
    /\ error = ""
    /\ IdleDates /\ IdleSco /\ IdleCsv /\ IdleExport

\* one pass of "for f in files or []"
DetailFile ==
    /\ pc = "detail"
    /\ cursor <= Len(files)
    /\ \E r \in {ProcessFile(files[cursor], fallback)} :
           /\ total_skipped' = total_skipped + r.skipped
           /\ IF r.raised
              THEN /\ error' = r.error
                   /\ pc' = OnException(pc)
                   /\ UNCHANGED <<cursor, frames, per_file_stats>>
              ELSE /\ frames' = Append(frames, r.table)
                   /\ per_file_stats' =
                          Append(per_file_stats,
                                 Stat(files[cursor].name, r.table, r.skipped))
                   /\ cursor' = cursor + 1
                   /\ UNCHANGED <<pc, error>>
    /\ UNCHANGED <<files, summary_files, fallback, s_fallback, unified_detail,
                   sum_frames, sum_skipped, sum_stats, unified_summary>>
    /\ UNCHANGED <<dateVars, scoVars, csvVars, exportVars>>

\* unified_detail = pd.concat(frames, ignore_index=True) if frames else pd.DataFrame()
DetailUnify ==
    /\ pc = "detail"
    /\ cursor > Len(files)
    /\ unified_detail' = <<IF Len(frames) > 0 THEN pd_concat(frames) ELSE EmptyFrame>>
    /\ pc' = "review"
    /\ UNCHANGED <<files, summary_files, fallback, s_fallback, cursor, frames,
                   total_skipped, per_file_stats, sum_frames, sum_skipped,
                   sum_stats, unified_summary, error>>
    /\ UNCHANGED <<dateVars, scoVars, csvVars, exportVars>>

\* the review of the rows with no SCO match, then the summary pipeline starts
ReviewMissing ==
    /\ pc = "review"
    /\ IF ReviewRaises(unified_detail[1])
       THEN /\ error' = "KeyError"
            /\ pc' = OnException(pc)
            /\ UNCHANGED cursor
       ELSE /\ pc' = "summary"
            /\ cursor' = 1
            /\ UNCHANGED error
    /\ UNCHANGED <<files, summary_files, fallback, s_fallback, frames,
                   total_skipped, per_file_stats, unified_detail, sum_frames,
                   sum_skipped, sum_stats, unified_summary>>
    /\ UNCHANGED <<dateVars, scoVars, csvVars, exportVars>>

\* one pass of "for f in summary_files"
SummaryFile ==
    /\ pc = "summary"
    /\ cursor <= Len(summary_files)
    /\ \E r \in {ProcessFile(summary_files[cursor], s_fallback)} :
           /\ sum_skipped' = sum_skipped + r.skipped
           /\ IF r.raised
              THEN /\ error' = r.error
                   /\ pc' = OnException(pc)
                   /\ UNCHANGED <<cursor, sum_frames, sum_stats>>
              ELSE /\ sum_frames' = Append(sum_frames, r.table)
                   /\ sum_stats' =
                          Append(sum_stats,
                                 Stat(summary_files[cursor].name, r.table, r.skipped))
                   /\ cursor' = cursor + 1
                   /\ UNCHANGED <<pc, error>>
    /\ UNCHANGED <<files, summary_files, fallback, s_fallback, frames,
                   total_skipped, per_file_stats, unified_detail, unified_summary>>
    /\ UNCHANGED <<dateVars, scoVars, csvVars, exportVars>>

\* unified_summary = pd.concat(sum_frames, ignore_index=True) if sum_frames else pd.DataFrame()
SummaryUnify ==
    /\ pc = "summary"
    /\ cursor > Len(summary_files)
    /\ unified_summary' =
           <<IF Len(sum_frames) > 0 THEN pd_concat(sum_frames) ELSE EmptyFrame>>
    /\ pc' = "export"
    /\ UNCHANGED <<files, summary_files, fallback, s_fallback, cursor, frames,
                   total_skipped, per_file_stats, unified_detail, sum_frames,
                   sum_skipped, sum_stats, error>>
    /\ UNCHANGED <<dateVars, scoVars, csvVars, exportVars>>

\* one workbook with a sheet for each table that is not empty
ExportSheets ==
    /\ pc = "export"
    /\ IF Empty(unified_detail[1]) /\ Empty(unified_summary[1])
       THEN /\ pc' = "nothing"
            /\ UNCHANGED <<unified_detail, unified_summary>>
       ELSE /\ pc' = "download"
            /\ unified_detail' =
                   IF Empty(unified_detail[1]) THEN unified_detail
                   ELSE <<write_sheet(unified_detail[1])>>
            /\ unified_summary' =
                   IF Empty(unified_summary[1]) THEN unified_summary
                   ELSE <<write_sheet(unified_summary[1])>>
    /\ UNCHANGED <<files, summary_files, fallback, s_fallback, cursor, frames,
                   total_skipped, per_file_stats, sum_frames, sum_skipped,
                   sum_stats, error>>
    /\ UNCHANGED <<dateVars, scoVars, csvVars, exportVars>>

Next ==
    \/ DetailFile
    \/ DetailUnify
    \/ ReviewMissing
    \/ SummaryFile
    \/ SummaryUnify
    \/ ExportSheets

Spec == Init /\ [][Next]_vars

---------------------------------------------------------------------------
(* export_xlsx_bytes, one call                                              *)

InitExport ==
    /\ pc = "coerce"
    /\ xdf \in ExportTables
    /\ \/ base_dir = NoDir /\ fs = Fs("absent", FALSE, FALSE)
       \/ base_dir = <<"e", "x", "p", "o", "r", "t", "s">> /\ fs \in FsStates
    /\ output = <<>>
    /\ blob = NoResult
    /\ IdleDates /\ IdleSco /\ IdleCsv /\ IdleBatch

\* 1) df[col] = pd.to_datetime(df[col], errors="coerce") for the date columns
CoerceDates ==
    /\ pc = "coerce"
    /\ xdf' = CoerceColumns(xdf, SheetDateCols)
    /\ pc' = "workbook"
    /\ UNCHANGED <<base_dir, fs, output, blob>>
    /\ UNCHANGED <<dateVars, scoVars, csvVars, batchVars>>

\* 2) the workbook is written to output
WriteWorkbook ==
    /\ pc = "workbook"
    /\ output' = <<Workbook(xdf)>>
    /\ pc' = "persist"
    /\ UNCHANGED <<xdf, base_dir, fs, blob>>
    /\ UNCHANGED <<dateVars, scoVars, csvVars, batchVars>>

\* 2) pd.to_datetime(val) on the text of a Month cell: what pandas makes of
\* the text is left open, and here it raises
WriteWorkbookRaises ==
    /\ pc = "workbook"
    /\ ParsesMonthText(xdf)
    /\ blob' = Raise("ValueError")
    /\ pc' = "raised"
    /\ UNCHANGED <<xdf, base_dir, fs, output>>
    /\ UNCHANGED <<dateVars, scoVars, csvVars, batchVars>>

\* if base_dir: base_dir.mkdir(parents=True, exist_ok=True)
MakeDir ==
    /\ pc = "persist"
    /\ IF base_dir = NoDir
       THEN pc' = "return" /\ UNCHANGED <<fs, blob>>
       ELSE LET made == mkdir(fs)
            IN  IF made.raised
                THEN blob' = Raise(made.error) /\ pc' = "raised" /\ UNCHANGED fs
                ELSE fs' = made.value /\ pc' = "write_bytes" /\ UNCHANGED blob
    /\ UNCHANGED <<xdf, base_dir, output>>
    /\ UNCHANGED <<dateVars, scoVars, csvVars, batchVars>>

\* (base_dir / filename).write_bytes(output.getvalue())
WriteBytes ==
    /\ pc = "write_bytes"
    /\ LET written == write_bytes(fs, output[1])
       IN  IF written.raised
           THEN blob' = Raise(written.error) /\ pc' = "raised" /\ UNCHANGED fs
           ELSE fs' = written.value /\ pc' = "return" /\ UNCHANGED blob
    /\ UNCHANGED <<xdf, base_dir, output>>
    /\ UNCHANGED <<dateVars, scoVars, csvVars, batchVars>>

\* return output.getvalue()
ReturnBlob ==
    /\ pc = "return"
    /\ blob' = Returned(output[1])
    /\ pc' = "returned"
    /\ UNCHANGED <<xdf, base_dir, fs, output>>
    /\ UNCHANGED <<dateVars, scoVars, csvVars, batchVars>>

NextExport ==
    \/ CoerceDates
    \/ WriteWorkbook
    \/ WriteWorkbookRaises
    \/ MakeDir
    \/ WriteBytes
    \/ ReturnBlob

SpecExport == InitExport /\ [][NextExport]_vars

---------------------------------------------------------------------------
(* Claims about extract_dates_from_filename                                 *)

LastIsDigit(s) == Len(s) > 0 /\ IsDigit(s[Len(s)])
FirstIsDigit(s) == Len(s) > 0 /\ IsDigit(s[1])

\* the tokens of the name are whole numbers of the name: no further digit
\* touches the first token on its left or the last token on its right
Delimited(g) == ~LastIsDigit(g.pre) /\ ~FirstIsDigit(g.post)

IsRange(g) == g.kind = "range" /\ g.join = <<"_">>

\* the year a token denotes: 2000 + Y unless Y is written with 4 digits
ExpYear(t) == IF t.ylen = 4 THEN t.y ELSE 2000 + t.y

ExpDate(t) == IF t.valid THEN Date(ExpYear(t), t.m, t.d) ELSE None

\* C3: a name holding two date tokens D[.-]D[.-]Y (Y of 2 or 4 digits, valid
\* month and day) joined by exactly one underscore yields exactly the two
\* dates, month first, a 2-digit year Y read as 2000 + Y and a 4-digit year
\* as written.
C3_RangeDatesMonthFirst ==
    (/\ pc # "call"
     /\ IsRange(gen) /\ Delimited(gen)
     /\ gen.t1.valid /\ gen.t1.ylen \in {2, 4}
     /\ gen.t2.valid /\ gen.t2.ylen \in {2, 4})
    => /\ pc = "returned"
       /\ dates = <<Date(ExpYear(gen.t1), gen.t1.m, gen.t1.d),
                    Date(ExpYear(gen.t2), gen.t2.m, gen.t2.d)>>

\* "10.27.25_11.2.25.csv" has given (2025-10-27, 2025-11-02)
C3_Witness ==
    /\ pc = "returned"
    /\ filename = <<"1", "0", ".", "2", "7", ".", "2", "5", "_",
                    "1", "1", ".", "2", ".", "2", "5", ".", "c", "s", "v">>
    /\ dates = <<Date(2025, 10, 27), Date(2025, 11, 2)>>

\* C4: the call never raises; each position of the result is a date or
\* absent; a matched token that is no calendar date gives absent at its
\* position; one token and no range gives (date, absent); a name with no
\* date-like substring gives (absent, absent).
C4_NeverRaisesAbsentInstead ==
    pc # "call" =>
       /\ pc = "returned"
       /\ \A k \in {1, 2} : dates[k].kind \in {"date", "None"}
       /\ (IsRange(gen) /\ Delimited(gen)) =>
              /\ dates[1].kind = "date" <=> gen.t1.valid
              /\ dates[2].kind = "date" <=> gen.t2.valid
       /\ (gen.kind # "plain" /\ ~IsRange(gen) /\ Delimited(gen)) =>
              dates = <<ExpDate(gen.t1), None>>
       /\ gen.kind = "plain" => dates = <<None, None>>

\* "13.1.25_11.2.25" has given (absent, 2025-11-02)
C4_Witness ==
    /\ pc = "returned"
    /\ IsRange(gen) /\ Delimited(gen)
    /\ gen.t1.m = 13
    /\ dates = <<None, Date(2025, 11, 2)>>

---------------------------------------------------------------------------
(* Claims about the SCO mapping                                             *)

\* the display name the literal table gives the label a cell was built from
DisplayOf(g) ==
    IF \E i \in 1..Len(SCO_MAP_RAW) : SCO_MAP_RAW[i].k = g.core /\ ~g.nan
    THEN SCO_MAP_RAW[CHOOSE i \in 1..Len(SCO_MAP_RAW) : SCO_MAP_RAW[i].k = g.core].v
    ELSE <<>>

Jackie == <<"J", "a", "c", "k", "i", "e">>

AgnewJacqueline == <<"A", "G", "N", "E", "W", ";", " ", "J", "A", "C", "Q", "U", "E", "L", "I", "N", "E">>
AgnewJaqueline == <<"A", "G", "N", "E", "W", ";", " ", "J", "A", "Q", "U", "E", "L", "I", "N", "E">>

\* C5: the SCO2 value of a raw cell is the display name of its normalised
\* value (trimmed, upper-cased, U+00A0 folded to a space) when the map holds
\* it and the empty string otherwise, never a missing value; normalising a
\* normalised value changes nothing; both spellings of AGNEW give "Jackie".
C5_Sco2FromNormalisedKey ==
    /\ pc \in {"cleaned", "mapped"} => _norm_key(StrCell(cleaned)) = cleaned
    /\ pc = "mapped" =>
          /\ sco2 = DisplayOf(sgen)
          /\ sco2 # NaN
          /\ sco2 = (IF cleaned \in DOMAIN SCO_MAP THEN SCO_MAP[cleaned] ELSE <<>>)
          /\ sgen.core \in {AgnewJacqueline, AgnewJaqueline} => sco2 = Jackie

\* " agnew; jaqueline" written in lower case behind a U+00A0 has given "Jackie"
C5_Witness ==
    /\ pc = "mapped"
    /\ sgen.core = AgnewJaqueline /\ sgen.how = "lower" /\ sgen.pre = <<NBSP>>
    /\ raw.v # cleaned
    /\ sco2 = Jackie

---------------------------------------------------------------------------
(* Claims about robust_read_csv                                             *)

CsvDone == pc \in {"returned", "raised"}

\* the rows after the first line, as the first pass reads them
DataRows == Tail(Reader(text, sep))

\* the table holds a row that starts with the fields of this row
Appears(row, df) ==
    /\ Len(row) > 0
    /\ \E k \in 1..Len(df.rows) :
          \A j \in 1..Min(Len(row), Len(df.rows[k])) : df.rows[k][j] = StrCell(row[j])

\* C1: a data row with fewer fields than the kept column count does not make
\* the call raise, is counted in the returned skipped count and is dropped
\* from the returned table.
C1_ShortRowsCountedAndDropped ==
    (CsvDone /\ Len(text) > 0) =>
        LET short == {i \in 1..Len(DataRows) : Len(DataRows[i]) < keep_cols}
        IN  short # {} =>
               /\ pc = "returned"
               /\ result.value.skipped = Cardinality(short)
               /\ \A i \in short : ~Appears(DataRows[i], result.value.df)

\* C2: under a header of h >= 1 columns the returned table has exactly
\* min(40, h) columns, the first min(40, h) header columns in their order.
C2_FirstFortyColumns ==
    (CsvDone /\ Len(text) > 0 /\ Len(Reader(text, sep)[1]) >= 1) =>
        /\ pc = "returned"
        /\ LET h == Len(Reader(text, sep)[1])
               cols == result.value.df.columns
           IN  /\ Len(cols) = (IF h < 40 THEN h ELSE 40)
               /\ \A k \in 1..Len(cols) : cols[k] = Reader(text, sep)[1][k]
               /\ (sep = cgen.fs /\ cgen.lead = 0) =>
                      /\ h = cgen.h
                      /\ \A k \in 1..Len(cols) : cols[k] = ColName(k)

\* a header of 45 columns has given exactly the columns c1 .. c40
C2_Witness ==
    /\ pc = "returned"
    /\ cgen.h = 45 /\ cgen.lead = 0 /\ sep = cgen.fs
    /\ total_cols = 45
    /\ Len(result.value.df.columns) = 40
    /\ result.value.df.columns[40] = <<"c", "4", "0">>

FirstNonEmpty(lines) ==
    lines[CHOOSE i \in 1..Len(lines) :
              Len(lines[i]) > 0 /\ \A j \in 1..(i - 1) : Len(lines[j]) = 0]

\* C10: the first non-empty line is the header that sets the expected column
\* count, whatever blank lines come before it; content with no lines at all
\* returns an empty table with skipped = 0 and does not raise.
C10_HeaderIsFirstNonEmptyLine ==
    /\ (pc \in {"count", "parse", "returned", "raised"}
          /\ \E i \in 1..Len(text) : Len(text[i]) > 0) =>
           /\ header = Split(FirstNonEmpty(text), sep)
           /\ total_cols = Len(Split(FirstNonEmpty(text), sep))
           /\ keep_cols = Min(40, total_cols)
    /\ (pc \notin {"sniff", "header"} /\ Len(text) = 0) =>
           /\ pc = "returned"
           /\ result = Returned([df |-> EmptyFrame, skipped |-> 0])


---------------------------------------------------------------------------
(* Claims about the batch loops                                             *)

\* the exceptions robust_read_csv lets through
ReadErrors == {"EmptyDataError", "ParserError"}

RECURSIVE RowCount(_)
RowCount(fr) == IF Len(fr) = 0 THEN 0 ELSE Len(fr[1].rows) + RowCount(Tail(fr))

\* the rows of the tables before table k
Offset(fr, k) == RowCount(SubSeq(fr, 1, k - 1))

\* row r of table k is row Offset(fr, k) + r of u, cell by cell
InFileOrder(fr, u) ==
    \A k \in 1..Len(fr) : \A r \in 1..Len(fr[k].rows) : \A c \in 1..Len(fr[k].columns) :
        /\ HasColumn(u, fr[k].columns[c])
        /\ u.rows[Offset(fr, k) + r][get_loc(u, fr[k].columns[c])] = fr[k].rows[r][c]

\* C6: once a loop has processed its files, the unified table has as many
\* rows as the per-file tables together, in file order and, within a file,
\* in the file's row order (write_sheet later turns the date cells of the
\* unified table into dates, so the cells are compared before it)
C6_UnifiedRowsInFileOrder ==
    /\ unified_detail # <<>> =>
          /\ Len(unified_detail[1].rows) = RowCount(frames)
          /\ \A k \in 1..Len(frames) : per_file_stats[k].rows = Len(frames[k].rows)
          /\ pc # "download" => InFileOrder(frames, unified_detail[1])
    /\ unified_summary # <<>> =>
          /\ Len(unified_summary[1].rows) = RowCount(sum_frames)
          /\ \A k \in 1..Len(sum_frames) : sum_stats[k].rows = Len(sum_frames[k].rows)
          /\ pc # "download" => InFileOrder(sum_frames, unified_summary[1])

C6_Witness ==
    /\ pc = "review"
    /\ Len(frames) = 2
    /\ Len(frames[1].rows) > 1 /\ Len(frames[2].rows) > 1
    /\ frames[1].columns # frames[2].columns
    /\ Len(unified_detail[1].rows) = Len(frames[1].rows) + Len(frames[2].rows)

\* C7 as claimed: a failure while reading one file does not abort the batch
C7_ReadFailureScopedToFile == error \in ReadErrors => pc # "aborted"

\* C7: a failure while reading one file leaves the loop at that file and
\* aborts the batch: the files before it are processed, no later file is,
\* and the unified table of that pipeline is never built
C7_ReadFailureAbortsBatch ==
    error \in ReadErrors =>
        /\ pc = "aborted"
        /\ unified_summary = <<>>
        /\ IF unified_detail = <<>>
           THEN /\ cursor <= Len(files)
                /\ ~Readable(files[cursor])
                /\ Len(frames) = cursor - 1
                /\ Len(per_file_stats) = cursor - 1
                /\ sum_frames = <<>>
           ELSE /\ cursor <= Len(summary_files)
                /\ ~Readable(summary_files[cursor])
                /\ Len(sum_frames) = cursor - 1

C7_Witness ==
    /\ pc = "aborted"
    /\ error \in ReadErrors
    /\ unified_detail = <<>>
    /\ cursor < Len(files)
    /\ Readable(files[cursor + 1])
    /\ ~Enrich(Parsed(files[cursor + 1]), files[cursor + 1].name, fallback).raised

\* the per-file tables next to the files they were made of
Made(fs_, fr) == {<<Parsed(fs_[k]), fr[k]>> : k \in 1..Len(fr)}
PerFile == Made(files, frames) \cup Made(summary_files, sum_frames)

\* C8 as claimed: Year, Month, From, To lead; SCO2 comes right after SCO when
\* the parsed table has SCO, and is not added otherwise; _source_file is last
C8_Sco2RightAfterSco ==
    \A m \in PerFile :
        LET p == m[1]
            t == m[2]
        IN  /\ SubSeq(t.columns, 1, 4) = <<Year, Month, From, To>>
            /\ HasColumn(p, SCO) =>
                   HasColumn(t, SCO2) /\ get_loc(t, SCO2) = get_loc(t, SCO) + 1
            /\ ~HasColumn(p, SCO) => ~HasColumn(t, SCO2)
            /\ t.columns[Len(t.columns)] = _source_file

\* C8: Year, Month, From, To lead; SCO2 is the fifth column, right after To,
\* when the parsed table has SCO and is not added otherwise; the parsed
\* columns follow in their order; _source_file is added last unless the
\* parsed table has a column of that name, which stays where it is
C8_Sco2FifthColumn ==
    \A m \in PerFile :
        LET p == m[1]
            t == m[2]
        IN  t.columns =
                <<Year, Month, From, To>>
                \o (IF HasColumn(p, SCO) THEN <<SCO2>> ELSE <<>>)
                \o p.columns
                \o (IF HasColumn(p, _source_file) THEN <<>> ELSE <<_source_file>>)

C8_Witness ==
    \E m \in Made(files, frames) :
        /\ HasColumn(m[1], SCO)
        /\ get_loc(m[2], SCO2) = 5
        /\ get_loc(m[2], SCO) > 6
        /\ Len(m[2].rows) > 0

---------------------------------------------------------------------------
(* Claims about export_xlsx_bytes                                           *)

\* the exceptions of the two persistence calls
PersistErrors == {"FileExistsError", "PermissionError"}

\* the call has ended with the workbook written and a base_dir given
ExportEnded == pc \in {"returned", "raised"} /\ output # <<>> /\ base_dir # NoDir

\* the directory can be made, or is there, and a file can be written in it
Persistable(f) ==
    /\ f.path = "dir" \/ (f.path = "absent" /\ f.can_create)
    /\ f.can_write

\* C9 as claimed: with a base_dir the workbook bytes are returned whether or
\* not they could be persisted
C9_BlobReturnedDespitePersistFailure == ExportEnded => blob = Returned(output[1])

\* C9: with a base_dir the workbook bytes are returned only when the
\* directory could be made and the file written; a failure of either call
\* leaves the function as an exception, with nothing returned or saved
C9_PersistFailurePropagates ==
    ExportEnded =>
        IF Persistable(fs)
        THEN /\ pc = "returned" /\ blob = Returned(output[1])
             /\ fs.path = "dir" /\ fs.saved = output
        ELSE /\ pc = "raised" /\ blob.raised /\ blob.error \in PersistErrors
             /\ fs.saved = <<>>

C9_Witness ==
    /\ ExportEnded
    /\ pc = "raised"
    /\ fs.path = "dir"
    /\ blob = Raise("PermissionError")

=============================================================================
